---- MODULE Spec2Model ----
(***************************************************************************)
(* Voucher issuance prototype: the mocked REST backend (mocks/handlers.ts), *)
(* the issue wizard (routes/IssueWizard.tsx), the selection, auth and toast *)
(* stores, and the offline queue with its replay page (routes/Offline.tsx). *)
(***************************************************************************)
EXTENDS Integers, Sequences, FiniteSets, TLC

(***************************************************************************)
(* Bounds of the model.                                                    *)
(***************************************************************************)
\* most issuance records the backend holds before requests stop
MaxIssuances == 2
\* most records in one request body sent straight to the API
MaxBatch == 2
\* most pending vouchers in the wizard before the voucher tiles stop being clicked
MaxVouchers == 2
\* most toasts on screen when the user clicks a button that shows more
MaxToasts == 0

(***************************************************************************)
(* Program constants.                                                      *)
(***************************************************************************)
None == "none"                    \* JavaScript undefined / absent field
VoucherTypes == {"MEAL", "UBER", "CABCHARGE"}
Roles == {"CSA", "SUPERVISOR", "FINANCE", "ADMIN"}
Flights == {"F1", "F2"}

\* handlers.ts: the passengers of each flight (fixture data)
FlightPassengers(f) == IF f = "F1" THEN <<"P1", "P2">> ELSE <<"P3">>
\* the PNR of a passenger (Passenger.pnr)
Pnr(p) == IF p = "P1" THEN "PNR1" ELSE IF p = "P2" THEN "PNR2" ELSE "PNR3"
AllPnrs == {"PNR1", "PNR2", "PNR3"}

VARIABLES
    issuances,      \* handlers.ts: let issuances: Issuance[]
    nextId,         \* the next value uuid() returns for an issuance id
    now,            \* the backend clock read by new Date()
    httpResp,       \* the last response of a request sent straight to the API
    offline,        \* the backend answers 503 (toggled by /api/_toggle_offline)
    user,           \* auth store: the signed-in user's role
    flight,         \* selection store: flight
    passengers,     \* selection store: passengers
    selectedIds,    \* selection store: selectedIds
    page,           \* the route shown
    step,           \* IssueWizard: step
    pendingVouchers,    \* IssueWizard: pendingVouchers
    existingIssuances,  \* IssueWizard: existingIssuances
    overrideReason, \* IssueWizard: overrideReason
    submitting,     \* IssueWizard: submitting
    errors,         \* IssueWizard: errors
    getReq,         \* the mount effect's fetchIssuancesByFlight in flight
    sub,            \* the running handleSubmit: its position and locals
    toasts,         \* toast store: toasts
    intents,        \* offline queue store: intents
    syncing,        \* Offline: syncing
    syncRun,        \* the running syncAll: toSync, its position and counters
    posts,          \* Offline.retryIntent: the POSTs of /api/issuances in flight
    nextReq,        \* number of the next request retryIntent sends
    nextIntent,     \* the next id crypto.randomUUID() gives an intent
    retryLog,       \* history: the outcome of each finished retry, in order
    reloads,        \* history: how many times the page was reloaded
    issuanceCounts, \* FlightDetail: issuanceCounts
    exIssuances,    \* Exports: issuances
    selectedFlightId,   \* Exports: selectedFlightId
    exLoading,      \* Exports: loading
    previewPage,    \* Exports: previewPage
    exLoads,        \* Exports.loadIssuances: the fetches in flight
    nextLoad,       \* number of the next fetch loadIssuances sends
    timers,         \* useToast.show: the setTimeout callbacks not yet run
    nextToast,      \* number of the next toast show creates
    uberIssued      \* history: the number of vouchers POST /api/uber/issue returned

apiVars == <<issuances, nextId, now, httpResp>>
selVars == <<flight, passengers, selectedIds>>
wizVars == <<step, pendingVouchers, existingIssuances, overrideReason,
             submitting, errors, getReq, sub>>
queueVars == <<intents, syncing, syncRun, posts, nextReq, nextIntent, retryLog,
               reloads>>
pageVars == <<exIssuances, selectedFlightId, exLoading, previewPage, exLoads,
              nextLoad>>
toastVars == <<timers, nextToast>>
moreVars == <<issuanceCounts, uberIssued, pageVars, toastVars>>
vars == <<issuances, nextId, now, httpResp, offline, user, flight, passengers,
          selectedIds, page, step, pendingVouchers, existingIssuances,
          overrideReason, submitting, errors, getReq, sub, toasts, intents,
          syncing, syncRun, posts, nextReq, nextIntent, retryLog, reloads,
          issuanceCounts, exIssuances, selectedFlightId, exLoading, previewPage,
          exLoads, nextLoad, timers, nextToast, uberIssued>>

(***************************************************************************)
(* Sequence helpers; Array.prototype.filter is SelectSeq.                  *)
(***************************************************************************)
SeqRange(s) == {s[k] : k \in 1..Len(s)}

(***************************************************************************)
(* mocks/handlers.ts                                                       *)
(***************************************************************************)
\* method of a voucher type (IssueWizard.tsx 255-260, Offline.tsx 78)
MethodOf(type) ==
    IF type = "UBER" THEN "uber_digital"
    ELSE IF type = "MEAL" THEN "meal_paper" ELSE "cabcharge_paper"

\* { ...rec, id: uuid(), status: 'issued', timestamp: new Date().toISOString() }
CreateRecordKeepingClientFields(rec, id, ts) ==
    [rec EXCEPT !.id = IF rec.id = 0 THEN id ELSE rec.id,
                !.status = IF rec.status = None THEN "issued" ELSE rec.status,
                !.timestamp = IF rec.timestamp = 0 THEN ts ELSE rec.timestamp]

CreateRecord(rec, id, ts) ==
    [rec EXCEPT !.id = id, !.status = "issued", !.timestamp = ts]

\* const records = Array.isArray(body) ? body : [body]
\* (a body that is a single object is held as items[1] with isArray FALSE)
BodyRecords(body) == IF body.isArray THEN body.items ELSE <<body.items[1]>>

\* records.map(...)
CreatedRecords(records, nid, ts) ==
    [k \in 1..Len(records) |-> CreateRecord(records[k], nid + k - 1, ts)]

\* POST /api/issuances: issuances = [...created, ...issuances]
PostIssuances(iss, body, nid, ts) ==
    CreatedRecords(BodyRecords(body), nid, ts) \o iss

\* GET /api/issuances(?flightId=)
GetIssuances(iss, flightId) ==
    IF flightId # None
    THEN LET OnFlight(i) == i.flightId = flightId IN SelectSeq(iss, OnFlight)
    ELSE iss

\* issuances.find((i) => i.id === id): index of the first match, 0 if none
FindIssuance(iss, id) ==
    IF \E k \in 1..Len(iss) : iss[k].id = id
    THEN CHOOSE k \in 1..Len(iss) :
            iss[k].id = id /\ \A j \in 1..(k - 1) : iss[j].id # id
    ELSE 0

\* POST /api/issuances/void/:id, the record after the void
VoidRecord(rec, reason) ==
    [rec EXCEPT !.status = "void",
                !.overrideReason = IF reason # None /\ reason # ""
                                   THEN reason ELSE rec.overrideReason]

\* POST /api/issuances/void/:id, the list after the void
VoidIssuanceHardDelete(iss, id, reason) ==
    LET Keep(i) == i.id # id IN SelectSeq(iss, Keep)

VoidIssuance(iss, id, reason) ==
    LET k == FindIssuance(iss, id) IN
    IF k = 0 THEN iss
    ELSE [iss EXCEPT ![k] = VoidRecord(iss[k], reason)]

(***************************************************************************)
(* Requests sent straight to the API.                                      *)
(***************************************************************************)
\* a record as a client may send it: any id, status or timestamp, or none
\* (ids and timestamps are numbers; 0 stands for an absent one)
ClientRecords ==
    [id : {0, 1}, status : {None, "void"}, timestamp : {0},
     batchId : {0}, flightId : Flights, pnr : {"PNR1"},
     voucherType : {"MEAL"}, amount : {30}, method : {None},
     externalId : {0}, issuerId : {"client"}, notes : {<<>>},
     overrideReason : {None}]

ClientBodies ==
    {[isArray |-> FALSE, items |-> <<r>>] : r \in ClientRecords}
    \cup {[isArray |-> TRUE, items |-> s] :
             s \in UNION {[1..n -> ClientRecords] : n \in 0..MaxBatch}}

VoidReasons == {None, "", "damaged"}

ApiPost(body) ==
    /\ Len(issuances) + Len(BodyRecords(body)) <= MaxIssuances
    /\ now <= MaxIssuances
    /\ issuances' = PostIssuances(issuances, body, nextId, now)
    /\ nextId' = nextId + Len(BodyRecords(body))
    /\ now' = now + 1
    /\ httpResp' = [kind |-> "POST", status |-> 201, req |-> BodyRecords(body),
                    body |-> CreatedRecords(BodyRecords(body), nextId, now)]
    /\ UNCHANGED <<offline, moreVars, user, selVars, page, wizVars, toasts, queueVars>>

ApiVoid(id, reason) ==
    /\ issuances' = VoidIssuance(issuances, id, reason)
    /\ httpResp' = IF FindIssuance(issuances, id) = 0
                   THEN [kind |-> "VOID", status |-> 404, req |-> <<>>, body |-> <<>>]
                   ELSE [kind |-> "VOID", status |-> 200, req |-> <<>>,
                         body |-> <<VoidRecord(issuances[FindIssuance(issuances, id)],
                                               reason)>>]
    /\ UNCHANGED <<nextId, now>>
    /\ UNCHANGED <<offline, moreVars, user, selVars, page, wizVars, toasts, queueVars>>

ApiGet(flightId) ==
    /\ httpResp' = [kind |-> "GET", status |-> 200, req |-> <<>>,
                    body |-> GetIssuances(issuances, flightId)]
    /\ UNCHANGED <<issuances, nextId, now>>
    /\ UNCHANGED <<offline, moreVars, user, selVars, page, wizVars, toasts, queueVars>>

\* the stores and the wizard as constructed (useState initial values)
NoGet == [state |-> "idle", flightId |-> None, body |-> <<>>]
NoSubmit == [pc |-> "idle", k |-> 0, rows |-> <<>>, uberErrors |-> 0,
             batchId |-> 0, flightId |-> None, vouchers |-> <<>>,
             selected |-> <<>>,
             duplicates |-> {}, overrideReason |-> "", canOverride |-> FALSE]

NoSync == [active |-> FALSE, toSync |-> <<>>, k |-> 0, succeeded |-> 0, failed |-> 0]

\* FlightDetail: useState({}) of issuanceCounts
NoCounts == [p \in {} |-> 0]

BackendInit ==
    /\ issuances = <<>>
    /\ nextId = 1
    /\ now = 1
    /\ httpResp = [kind |-> "NONE", status |-> 0, req |-> <<>>, body |-> <<>>]
    /\ offline = FALSE

ClientInit ==
    /\ flight = None
    /\ passengers = <<>>
    /\ selectedIds = {}
    /\ step = 1
    /\ pendingVouchers = <<>>
    /\ existingIssuances = <<>>
    /\ overrideReason = ""
    /\ submitting = FALSE
    /\ errors = <<>>
    /\ getReq = NoGet
    /\ sub = NoSubmit
    /\ toasts = <<>>
    /\ intents = <<>>
    /\ syncing = FALSE
    /\ syncRun = NoSync
    /\ posts = {}
    /\ nextReq = 1
    /\ nextIntent = 1
    /\ retryLog = <<>>
    /\ reloads = 0
    /\ issuanceCounts = NoCounts
    /\ exIssuances = <<>>
    /\ selectedFlightId = "all"
    /\ exLoading = FALSE
    /\ previewPage = 1
    /\ exLoads = {}
    /\ nextLoad = 1
    /\ timers = <<>>
    /\ nextToast = 1
    /\ uberIssued = 0

ApiInit ==
    /\ BackendInit
    /\ ClientInit
    /\ user = "ADMIN"
    /\ page = "dashboard"

ApiNext ==
    \/ \E body \in ClientBodies : ApiPost(body)
    \/ \E id \in 1..(MaxIssuances + 1), reason \in VoidReasons : ApiVoid(id, reason)
    \/ \E f \in Flights \cup {None} : ApiGet(f)

SpecApi == ApiInit /\ [][ApiNext]_vars

(***************************************************************************)
(* store/selection.ts, store/auth.ts, config.ts                            *)
(***************************************************************************)
\* toggle: (id) => ...
ToggleId(ids, id) == IF id \in ids THEN ids \ {id} ELSE ids \cup {id}

\* CONFIG.SHOW_DUPLICATE_GUARD
SHOW_DUPLICATE_GUARD == TRUE

(***************************************************************************)
(* routes/IssueWizard.tsx                                                  *)
(***************************************************************************)
\* const selectedPassengers = passengers.filter((p) => selectedIds.has(p.id))
SelectedPassengers(pax, ids) == LET Sel(p) == p \in ids IN SelectSeq(pax, Sel)

selectedPassengers == SelectedPassengers(passengers, selectedIds)

\* getDefaultAmount, with no preset for the flight's disruption category
DefaultAmount(type) ==
    IF type = "UBER" THEN 50 ELSE IF type = "MEAL" THEN 30 ELSE 50

\* crypto.randomUUID() for the k-th voucher addVoucher creates: the k-th
\* id that no pending voucher has
UnusedVoucherId(vs, k) ==
    LET used == {vs[j].id : j \in 1..Len(vs)}
    IN  CHOOSE n \in 1..(Len(vs) + k) :
            n \notin used /\ Cardinality({m \in 1..n : m \notin used}) = k

\* addVoucher: startSerial of a new voucher (undefined for UBER)
StartSerial(type) ==
    IF type = "MEAL" THEN "M1000" ELSE IF type = "CABCHARGE" THEN "C2000" ELSE None

\* addVoucher: one voucher per selected passenger
NewVouchers(type, sel, vs) ==
    [k \in 1..Len(sel) |->
        [id |-> UnusedVoucherId(vs, k), type |-> type, passengerId |-> sel[k],
         amount |-> DefaultAmount(type), reason |-> "", serialNumber |-> None,
         mode |-> IF type # "UBER" THEN "quick" ELSE None,
         startSerial |-> StartSerial(type)]]

\* updateVoucher(id, { serialNumber })
UpdateSerialNumber(vs, id, text) ==
    [k \in 1..Len(vs) |->
        IF vs[k].id = id THEN [vs[k] EXCEPT !.serialNumber = text] ELSE vs[k]]

\* updateVoucher(id, { amount })
UpdateAmount(vs, id, amount) ==
    [k \in 1..Len(vs) |->
        IF vs[k].id = id THEN [vs[k] EXCEPT !.amount = amount] ELSE vs[k]]

\* overrideReason.trim(), on the texts the model types into the field
Trim(text) == IF text = " " THEN "" ELSE text

\* getDuplicates: the (passenger, voucher type) pairs that have an existing
\* issuance with the same PNR, flight and type that is not void
GetDuplicates(sel, vs, existing, fl) ==
    {d \in {<<sel[i], vs[j].type>> : i \in 1..Len(sel), j \in 1..Len(vs)} :
        \E n \in 1..Len(existing) :
            /\ existing[n].pnr = Pnr(d[1])
            /\ existing[n].flightId = fl
            /\ existing[n].voucherType = d[2]
            /\ existing[n].status # "void"}

duplicates == GetDuplicates(selectedPassengers, pendingVouchers, existingIssuances, flight)
hasDuplicates == duplicates # {}
canOverride == user = "SUPERVISOR" \/ user = "ADMIN"
isBlocked == SHOW_DUPLICATE_GUARD /\ hasDuplicates /\ ~canOverride
needsOverrideReason ==
    SHOW_DUPLICATE_GUARD /\ hasDuplicates /\ canOverride /\ Trim(overrideReason) = ""

\* totalRows, the number the summaries of step 2 and step 3 announce
TotalRows(sel, vs) == Len(sel) * Len(vs)
totalRows == TotalRows(selectedPassengers, pendingVouchers)

\* the wizard renders (it returns null with no flight or no selected passenger)
WizardShown == page = "issue" /\ flight # None /\ selectedPassengers # <<>>

\* one "key:text" part of a notes string; n >= 0 is a "-n" suffix of the text
NotePart(key, text, n) == [key |-> key, text |-> text, n |-> n]

\* handleSubmit: notes of a row (serial, then reason), as its parts in order
Notes(v) ==
    LET serial == IF v.serialNumber # None /\ v.serialNumber # ""
                  THEN <<NotePart("serial", v.serialNumber, -1)>> ELSE <<>>
        reason == IF v.reason # "" THEN <<NotePart("reason", v.reason, -1)>> ELSE <<>>
    IN  serial \o reason

\* handleSubmit: rows.push({...})
Row(v, externalId, s) ==
    [id |-> 0, status |-> None, timestamp |-> 0,
     batchId |-> s.batchId, flightId |-> s.flightId, pnr |-> Pnr(v.passengerId),
     voucherType |-> v.type, amount |-> v.amount, method |-> MethodOf(v.type),
     externalId |-> externalId, issuerId |-> "Demo User", notes |-> Notes(v),
     overrideReason |->
        IF <<v.passengerId, v.type>> \in s.duplicates /\ s.canOverride
        THEN s.overrideReason ELSE None]

\* handleSubmit: the for loop over pendingVouchers, run up to the next await
\* (the Uber call of a UBER voucher) or to the end of the list
RECURSIVE RunLoop(_)
RunLoop(s) ==
    IF s.k > Len(s.vouchers) THEN [s EXCEPT !.pc = "post"]
    ELSE LET v == s.vouchers[s.k] IN
         IF v.passengerId \notin SeqRange(s.selected)
         THEN RunLoop([s EXCEPT !.k = @ + 1])
         ELSE IF v.type = "UBER" THEN [s EXCEPT !.pc = "uber"]
         ELSE RunLoop([s EXCEPT !.rows = Append(@, Row(v, 0, s)), !.k = @ + 1])

\* crypto.randomUUID() for a batch id: an id no stored batch has
FreshBatchId(iss) ==
    1 + Len(iss)

\* most vouchers the Uber API ever issues
MaxUber == 2

\* uuid() for an Uber voucher id: an id the Uber API has not returned before
FreshVoucherId(issued) ==
    1 + issued

\* POST /api/uber/issue rejects amounts above this
UberMaxAmount == 80

Toast(type, msg) == [type |-> type, msg |-> msg]

(***************************************************************************)
(* Actions of the flight page and the wizard.                              *)
(***************************************************************************)
\* a clear() that leaves the selection as it is
ClearKeepingSelection(ids) == ids

\* selection store clear: selectedIds becomes the empty set
Clear(ids) == {}

\* loadData counting every issuance, whatever its status
IssuanceCountsAnyStatus(paxs, data) ==
    [p \in SeqRange(paxs) |-> [t \in VoucherTypes |->
        Cardinality({k \in 1..Len(data) :
            /\ \E i \in 1..Len(paxs) :
                  /\ paxs[i] = p
                  /\ Pnr(paxs[i]) = data[k].pnr
                  /\ \A j \in 1..(i - 1) : Pnr(paxs[j]) # data[k].pnr
            /\ data[k].voucherType = t})]]

\* loadData: newCounts, one entry per passenger and voucher type; an issuance
\* with status 'issued' counts for the first passenger with its PNR
IssuanceCounts(paxs, data) ==
    [p \in SeqRange(paxs) |-> [t \in VoucherTypes |->
        Cardinality({k \in 1..Len(data) :
            /\ data[k].status = "issued"
            /\ \E i \in 1..Len(paxs) :
                  /\ paxs[i] = p
                  /\ Pnr(paxs[i]) = data[k].pnr
                  /\ \A j \in 1..(i - 1) : Pnr(paxs[j]) # data[k].pnr
            /\ data[k].voucherType = t})]]

\* FlightDetail.loadData: setFlight, setPassengers (the selection is kept),
\* setIssuanceCounts from the issuances of the flight
LoadFlight(f) ==
    /\ page \in {"dashboard", "flight"}
    /\ page' = "flight"
    /\ flight' = f
    /\ passengers' = FlightPassengers(f)
    /\ issuanceCounts' = IssuanceCounts(FlightPassengers(f), GetIssuances(issuances, f))
    /\ UNCHANGED <<uberIssued, pageVars, toastVars>>
    /\ UNCHANGED <<selectedIds, apiVars, offline, user, wizVars, toasts, queueVars>>

\* FlightDetail: a passenger's checkbox
TogglePassenger(p) ==
    /\ page = "flight"
    /\ p \in SeqRange(passengers)
    /\ selectedIds' = ToggleId(selectedIds, p)
    /\ UNCHANGED <<flight, passengers, page, apiVars, offline, moreVars, user, wizVars,
                   toasts, queueVars>>

\* FlightDetail: handleSelectAll / handleSelectAllNotBoarded, selectAll(ids)
\* with the ids of the passengers the search and the filter let through
SelectAll(ids) ==
    /\ page = "flight"
    /\ ids \subseteq SeqRange(passengers)
    /\ selectedIds' = ids
    /\ UNCHANGED <<flight, passengers, page, apiVars, offline, moreVars, user, wizVars,
                   toasts, queueVars>>

\* FlightDetail: handleClear, clear() of the selection store
ClearSelection ==
    /\ page = "flight"
    /\ selectedIds' = Clear(selectedIds)
    /\ UNCHANGED <<flight, passengers, page, apiVars, offline, moreVars, user, wizVars,
                   toasts, queueVars>>

\* FlightDetail: Issue voucher button, then the wizard's mount effect
OpenWizard ==
    /\ page = "flight"
    /\ selectedIds # {}
    /\ sub.pc = "idle"
    /\ UNCHANGED <<step, pendingVouchers, existingIssuances, overrideReason,
                   submitting, errors, sub>>
    /\ IF flight = None \/ selectedPassengers = <<>>
       THEN /\ page' = "dashboard"
            /\ getReq' = NoGet
       ELSE /\ page' = "issue"
            /\ getReq' = [state |-> "sent", flightId |-> flight, body |-> <<>>]
    /\ UNCHANGED <<selVars, apiVars, offline, moreVars, user, toasts, queueVars>>

\* GET /api/issuances?flightId= handled by the backend
GetRespond ==
    /\ getReq.state = "sent"
    /\ getReq' = [getReq EXCEPT !.state = "replied",
                                !.body = GetIssuances(issuances, getReq.flightId)]
    /\ UNCHANGED <<apiVars, offline, moreVars, user, selVars, page, step, pendingVouchers,
                   existingIssuances, overrideReason, submitting, errors, sub,
                   toasts, queueVars>>

\* fetchIssuancesByFlight(flight.id).then(setExistingIssuances)
GetDeliver ==
    /\ getReq.state = "replied"
    /\ existingIssuances' = getReq.body
    /\ getReq' = NoGet
    /\ UNCHANGED <<apiVars, offline, moreVars, user, selVars, page, step, pendingVouchers,
                   overrideReason, submitting, errors, sub, toasts, queueVars>>

\* step 1: a voucher tile
AddVoucher(type) ==
    /\ WizardShown /\ step = 1
    /\ Len(pendingVouchers) + Len(selectedPassengers) <= MaxVouchers
    /\ pendingVouchers' =
          pendingVouchers \o NewVouchers(type, selectedPassengers, pendingVouchers)
    /\ UNCHANGED <<apiVars, offline, moreVars, user, selVars, page, step, existingIssuances,
                   overrideReason, submitting, errors, getReq, sub, toasts, queueVars>>

\* step 1: Remove All of a type
RemoveAllOfType(type) ==
    /\ WizardShown /\ step = 1
    /\ \E k \in 1..Len(pendingVouchers) : pendingVouchers[k].type = type
    /\ pendingVouchers' =
          LET Keep(v) == v.type # type IN SelectSeq(pendingVouchers, Keep)
    /\ UNCHANGED <<apiVars, offline, moreVars, user, selVars, page, step, existingIssuances,
                   overrideReason, submitting, errors, getReq, sub, toasts, queueVars>>

\* step buttons whose step 1 Next is enabled with no pending voucher
GoToStepUnguarded(to) ==
    /\ WizardShown
    /\ \/ step = 1 /\ to = 2
       \/ step = 2 /\ to \in {1, 3}
       \/ step = 3 /\ to = 2 /\ ~submitting
    /\ step' = to
    /\ UNCHANGED <<apiVars, offline, moreVars, user, selVars, page, pendingVouchers,
                   existingIssuances, overrideReason, submitting, errors, getReq,
                   sub, toasts, queueVars>>

\* step 1 Next (disabled with no pending voucher), step 2 Back / Next,
\* step 3 Back (disabled while submitting)
GoToStep(to) ==
    /\ WizardShown
    /\ \/ step = 1 /\ to = 2 /\ pendingVouchers # <<>>
       \/ step = 2 /\ to \in {1, 3}
       \/ step = 3 /\ to = 2 /\ ~submitting
    /\ step' = to
    /\ UNCHANGED <<apiVars, offline, moreVars, user, selVars, page, pendingVouchers,
                   existingIssuances, overrideReason, submitting, errors, getReq,
                   sub, toasts, queueVars>>

\* step 2: Remove passenger
RemovePassenger(p) ==
    /\ WizardShown /\ step = 2
    /\ p \in SeqRange(selectedPassengers)
    /\ selectedIds' = ToggleId(selectedIds, p)
    /\ pendingVouchers' =
          LET Keep(v) == v.passengerId # p IN SelectSeq(pendingVouchers, Keep)
    /\ UNCHANGED <<flight, passengers, apiVars, offline, moreVars, user, page, step,
                   existingIssuances, overrideReason, submitting, errors, getReq,
                   sub, toasts, queueVars>>

\* step 2: the amount field of a voucher (typed into for Uber vouchers)
EditAmount(id, amount) ==
    /\ WizardShown /\ step = 2
    /\ \E k \in 1..Len(pendingVouchers) :
          /\ pendingVouchers[k].id = id
          /\ pendingVouchers[k].type = "UBER"
          /\ pendingVouchers[k].amount # amount
    /\ pendingVouchers' = UpdateAmount(pendingVouchers, id, amount)
    /\ UNCHANGED <<apiVars, offline, moreVars, user, selVars, page, step, existingIssuances,
                   overrideReason, submitting, errors, getReq, sub, toasts, queueVars>>

\* step 2: the Serial Number field of a MEAL or CABCHARGE voucher
TypeSerialNumber(id, text) ==
    /\ WizardShown /\ step = 2
    /\ \E k \in 1..Len(pendingVouchers) :
          /\ pendingVouchers[k].id = id
          /\ pendingVouchers[k].type \in {"MEAL", "CABCHARGE"}
          /\ pendingVouchers[k].serialNumber # text
    /\ pendingVouchers' = UpdateSerialNumber(pendingVouchers, id, text)
    /\ UNCHANGED <<apiVars, offline, moreVars, user, selVars, page, step, existingIssuances,
                   overrideReason, submitting, errors, getReq, sub, toasts, queueVars>>

\* step 3: the override reason field (shown with a duplicate, to an overrider)
TypeOverrideReason(text) ==
    /\ WizardShown /\ step = 3
    /\ SHOW_DUPLICATE_GUARD /\ hasDuplicates /\ canOverride
    /\ text # overrideReason
    /\ overrideReason' = text
    /\ UNCHANGED <<apiVars, offline, moreVars, user, selVars, page, step, pendingVouchers,
                   existingIssuances, submitting, errors, getReq, sub, toasts,
                   queueVars>>

\* step 3: Issue now -> handleSubmit up to its first await
SubmitClick ==
    /\ WizardShown /\ step = 3
    /\ ~(isBlocked \/ needsOverrideReason \/ submitting)
    /\ sub.pc = "idle"
    /\ Len(issuances) + Len(pendingVouchers) <= MaxIssuances
    /\ Len(toasts) <= MaxToasts
    /\ submitting' = TRUE
    /\ errors' = <<>>
    /\ sub' = RunLoop([pc |-> "loop", k |-> 1, rows |-> <<>>, uberErrors |-> 0,
                       batchId |-> FreshBatchId(issuances), flightId |-> flight,
                       vouchers |-> pendingVouchers,
                       selected |-> selectedPassengers,
                       duplicates |-> duplicates,
                       overrideReason |-> overrideReason,
                       canOverride |-> canOverride])
    /\ UNCHANGED <<apiVars, offline, moreVars, user, selVars, page, step,
                   pendingVouchers, existingIssuances, overrideReason, getReq,
                   toasts, queueVars>>

\* await issueUberVoucher(...): POST /api/uber/issue answers; the loop goes on
UberRespond(ok) ==
    /\ sub.pc = "uber"
    /\ LET v == sub.vouchers[sub.k] IN
       /\ ok => v.amount <= UberMaxAmount /\ uberIssued < MaxUber
       /\ sub' = RunLoop([sub EXCEPT
                    !.rows = Append(@, Row(v, IF ok THEN FreshVoucherId(uberIssued)
                                                    ELSE 0, sub)),
                    !.uberErrors = IF ok THEN @ ELSE @ + 1,
                    !.k = @ + 1])
    /\ uberIssued' = IF ok THEN uberIssued + 1 ELSE uberIssued
    /\ UNCHANGED <<apiVars, offline, issuanceCounts, pageVars, toastVars, user, selVars, page, step,
                   pendingVouchers, existingIssuances, overrideReason, submitting,
                   errors, getReq, toasts, queueVars>>

\* a catch block without setSubmitting(false)
SubmitFailedStillSubmitting ==
    /\ sub.pc = "post"
    /\ offline
    /\ toasts' = Append(toasts, Toast("error", "Something went wrong. Please try again."))
    /\ errors' = <<"Failed to create issuances">>
    /\ sub' = NoSubmit
    /\ UNCHANGED <<apiVars, offline, moreVars, user, selVars, page, step, pendingVouchers,
                   existingIssuances, overrideReason, submitting, getReq, queueVars>>

\* await createIssuances(rows) fails: the catch block
SubmitFailed ==
    /\ sub.pc = "post"
    /\ offline
    /\ toasts' = Append(toasts, Toast("error", "Something went wrong. Please try again."))
    /\ errors' = <<"Failed to create issuances">>
    /\ submitting' = FALSE
    /\ sub' = NoSubmit
    /\ UNCHANGED <<apiVars, offline, moreVars, user, selVars, page, step, pendingVouchers,
                   existingIssuances, overrideReason, getReq, queueVars>>

\* the wizard unmounts: its component state is gone (useState starts afresh
\* at the next mount)
WizardUnmounted ==
    /\ step' = 1
    /\ pendingVouchers' = <<>>
    /\ existingIssuances' = <<>>
    /\ overrideReason' = ""
    /\ submitting' = FALSE
    /\ errors' = <<>>
    /\ getReq' = NoGet
    /\ sub' = NoSubmit

\* await createIssuances(rows) succeeds: toasts, navigate (the wizard
\* unmounts), clear, reset. The 15below sends in between are each wrapped in
\* their own try/catch and change nothing of the state held here.
SubmitSucceeded ==
    /\ sub.pc = "post"
    /\ ~offline
    /\ issuances' = PostIssuances(issuances, [isArray |-> TRUE, items |-> sub.rows],
                                  nextId, now)
    /\ nextId' = nextId + Len(sub.rows)
    /\ now' = now + 1
    /\ toasts' = toasts
          \o (IF sub.uberErrors > 0
              THEN <<Toast("warning", "Some Uber vouchers failed to generate IDs (mock)")>>
              ELSE <<>>)
          \o <<Toast("success", "Issued voucher(s).")>>
    /\ page' = "flight"
    /\ selectedIds' = Clear(selectedIds)
    /\ WizardUnmounted
    /\ issuanceCounts' = NoCounts
    /\ UNCHANGED <<uberIssued, pageVars, toastVars>>
    /\ UNCHANGED <<httpResp, offline, user, flight, passengers, queueVars>>

\* step 1 Cancel, or a link of the navigation bar
LeaveWizard ==
    /\ page = "issue"
    /\ sub.pc = "idle"
    /\ page' = "dashboard"
    /\ WizardUnmounted
    /\ UNCHANGED <<apiVars, offline, moreVars, user, selVars, toasts, queueVars>>

\* the backend becomes unavailable / available again
ToggleOffline ==
    /\ offline' = ~offline
    /\ UNCHANGED <<apiVars, moreVars, user, selVars, page, wizVars, toasts, queueVars>>

\* the 5 s timer of the oldest toast fires
ToastExpire ==
    /\ toasts # <<>>
    /\ toasts' = Tail(toasts)
    /\ UNCHANGED <<apiVars, offline, moreVars, user, selVars, page, wizVars, queueVars>>

WizardFlights == {"F1"}
WizardTypes == {"MEAL", "UBER"}
WizardUsers == {"CSA", "SUPERVISOR"}
EditAmounts == {81}
ReasonTexts == {"", " ", "approved"}

WizardInit ==
    /\ BackendInit
    /\ ClientInit
    /\ user \in WizardUsers
    /\ page = "dashboard"

WizardNext ==
    \/ \E f \in WizardFlights : LoadFlight(f)
    \/ \E p \in {"P1", "P2"} : TogglePassenger(p)
    \/ OpenWizard
    \/ GetRespond
    \/ GetDeliver
    \/ \E t \in WizardTypes : AddVoucher(t)
    \/ \E t \in WizardTypes : RemoveAllOfType(t)
    \/ \E to \in 1..3 : GoToStep(to)
    \/ \E p \in {"P1", "P2"} : RemovePassenger(p)
    \/ \E id \in 1..MaxVouchers, a \in EditAmounts : EditAmount(id, a)
    \/ \E text \in ReasonTexts : TypeOverrideReason(text)
    \/ SubmitClick
    \/ \E ok \in BOOLEAN : UberRespond(ok)
    \/ SubmitFailed
    \/ SubmitSucceeded
    \/ LeaveWizard
    \/ ToggleOffline
    \/ ToastExpire

SpecWizard == WizardInit /\ [][WizardNext]_vars

(***************************************************************************)
(* The offline queue store and the Offline page.                           *)
(***************************************************************************)
\* most intents ever put in the queue
MaxIntents == 2
\* most queue POSTs ever sent
MaxPosts == 3
\* most page reloads
MaxReloads == 1

\* an intent's error text: `HTTP ${code}` when code > 0, else the text itself
ErrorText(text, code) == [text |-> text, code |-> code]
\* an intent without an error (error: undefined)
NoError == ErrorText(None, 0)

\* useOfflineQueue.enqueue: [...state.intents, newIntent]
Enqueue(ints, payload, id, ts) ==
    Append(ints, [id |-> id, createdAt |-> ts, status |-> "queued",
                  error |-> NoError, payload |-> payload])

\* useOfflineQueue.updateStatus: { ...intent, status, error } for the intent id
UpdateStatus(ints, id, status, error) ==
    [k \in 1..Len(ints) |->
        IF ints[k].id = id
        THEN [ints[k] EXCEPT !.status = status, !.error = error]
        ELSE ints[k]]

\* useOfflineQueue.remove: intents.filter((intent) => intent.id !== id)
Remove(ints, id) ==
    LET Other(i) == i.id # id IN SelectSeq(ints, Other)

\* retryIntent: the notes of the row of passenger paxIndex (from 0) for a voucher
RetryNotes(voucher, paxIndex) ==
    IF voucher.mode = "quick" /\ voucher.startSerial # None
    THEN <<NotePart("serial", voucher.startSerial, paxIndex)>>
    ELSE IF /\ voucher.mode = "manual"
            /\ paxIndex + 1 <= Len(voucher.manualSerials)
         THEN <<NotePart("serial", voucher.manualSerials[paxIndex + 1], -1)>>
         ELSE <<>>

\* retryIntent: the row of one passenger and one voucher of the payload
RetryRow(payload, paxIndex, voucher) ==
    [id |-> 0, status |-> None, timestamp |-> 0, batchId |-> 0,
     flightId |-> payload.flightId,
     pnr |-> payload.recipientPaxIds[paxIndex + 1],
     voucherType |-> voucher.type, amount |-> voucher.amount,
     method |-> MethodOf(voucher.type), externalId |-> 0,
     issuerId |-> "offline-queue", notes |-> RetryNotes(voucher, paxIndex),
     overrideReason |-> None]

\* retryIntent: passengers.flatMap((pax, paxIndex) => vouchers.map(...))
RetryRows(payload) ==
    LET P == Len(payload.recipientPaxIds)
        V == Len(payload.vouchers)
    IN  [n \in 1..(P * V) |->
            RetryRow(payload, (n - 1) \div V, payload.vouchers[((n - 1) % V) + 1])]

\* retryIntent without the fallback text of the catch block
RetryResultBareMessage(resp) ==
    IF resp.kind = "http" /\ resp.ok
    THEN [status |-> "synced", error |-> NoError, toast |-> Toast("success", "Intent synced successfully.")]
    ELSE [status |-> "failed",
          error |-> IF resp.kind = "http" THEN ErrorText("HTTP", resp.status)
                    ELSE ErrorText(resp.message, 0),
          toast |-> Toast("error", "Retry failed - check connection.")]

\* retryIntent after the fetch: the status, the error text and the toast.
RetryResult(resp) ==
    IF resp.kind = "http" /\ resp.ok
    THEN [status |-> "synced", error |-> NoError, toast |-> Toast("success", "Intent synced successfully.")]
    ELSE [status |-> "failed",
          error |-> IF resp.kind = "http" THEN ErrorText("HTTP", resp.status)
                    ELSE IF resp.message # "" THEN ErrorText(resp.message, 0)
                    ELSE ErrorText("Network error", 0),
          toast |-> Toast("error", "Retry failed - check connection.")]

\* syncAll: intents.filter((i) => i.status === 'queued' || i.status === 'failed')
ToSync(ints) ==
    LET Pending(i) == i.status \in {"queued", "failed"} IN SelectSeq(ints, Pending)

NoResp == [kind |-> "none", ok |-> FALSE, status |-> 0, message |-> ""]

\* retryIntent up to its fetch: the request it sends for an intent
RetryRequest(intent, rid, caller) ==
    [rid |-> rid, intentId |-> intent.id, rows |-> RetryRows(intent.payload),
     caller |-> caller, resp |-> NoResp]

\* the summary toast of syncAll
SyncSummary(succeeded, failed) ==
    [type |-> IF succeeded > 0 THEN "success" ELSE "warning",
     msg |-> "Sync completed", succeeded |-> succeeded, failed |-> failed]

\* the payloads intents are queued with
QueuePayloads ==
    { [flightId |-> "F1", recipientPaxIds |-> <<"PNR1">>,
       vouchers |-> <<[type |-> "MEAL", amount |-> 15, mode |-> "quick",
                       startSerial |-> "M1000", manualSerials |-> <<>>]>>],
      [flightId |-> "F1", recipientPaxIds |-> <<"PNR1", "PNR2">>,
       vouchers |-> <<[type |-> "UBER", amount |-> 50, mode |-> None,
                       startSerial |-> None, manualSerials |-> <<>>]>>] }
\* the messages of the errors a rejected fetch carries
FetchErrors == {"Failed to fetch", ""}

\* useOfflineQueue.enqueue called with a payload
EnqueueIntent(payload) ==
    /\ nextIntent <= MaxIntents
    /\ intents' = Enqueue(intents, payload, nextIntent, now)
    /\ nextIntent' = nextIntent + 1
    /\ UNCHANGED <<apiVars, offline, moreVars, user, selVars, page, wizVars, toasts,
                   syncing, syncRun, posts, nextReq, retryLog, reloads>>

\* a mount effect that replays the queue by itself when the page opens
MountOfflineAutoSync ==
    /\ page = "dashboard"
    /\ page' = "offline"
    /\ IF ToSync(intents) # <<>> /\ nextReq + Len(ToSync(intents)) - 1 <= MaxPosts
       THEN /\ syncing' = TRUE
            /\ syncRun' = [active |-> TRUE, toSync |-> ToSync(intents), k |-> 1,
                           succeeded |-> 0, failed |-> 0]
            /\ intents' = UpdateStatus(intents, ToSync(intents)[1].id, "posting", NoError)
            /\ posts' = posts \cup {RetryRequest(ToSync(intents)[1], nextReq, "syncAll")}
            /\ nextReq' = nextReq + 1
       ELSE /\ syncing' = FALSE
            /\ UNCHANGED <<intents, syncRun, posts, nextReq>>
    /\ UNCHANGED <<apiVars, offline, moreVars, user, selVars, wizVars, toasts, nextIntent,
                   retryLog, reloads>>

\* the Offline page opens: useState(false) and the mount effect, which only
\* reads the offline flag for display
MountOffline ==
    /\ page = "dashboard"
    /\ page' = "offline"
    /\ syncing' = FALSE
    /\ UNCHANGED <<apiVars, offline, moreVars, user, selVars, wizVars, toasts, intents,
                   syncRun, posts, nextReq, nextIntent, retryLog, reloads>>

\* Back to Dashboard (the user stays on the page while a Sync Now run lasts)
LeaveOffline ==
    /\ page = "offline"
    /\ ~syncRun.active
    /\ page' = "dashboard"
    /\ UNCHANGED <<apiVars, offline, moreVars, user, selVars, wizVars, toasts, queueVars>>

\* the Retry button of row k: retryIntent(intent) up to its fetch
RetryClick(k) ==
    /\ page = "offline"
    /\ k \in 1..Len(intents)
    /\ intents[k].status \notin {"posting", "synced"}
    /\ nextReq <= MaxPosts
    /\ Len(toasts) <= MaxToasts
    /\ intents' = UpdateStatus(intents, intents[k].id, "posting", NoError)
    /\ posts' = posts \cup {RetryRequest(intents[k], nextReq, "button")}
    /\ nextReq' = nextReq + 1
    /\ UNCHANGED <<apiVars, offline, moreVars, user, selVars, page, wizVars, toasts,
                   syncing, syncRun, nextIntent, retryLog, reloads>>

\* the Sync Now button: syncAll up to the fetch of its first retryIntent
SyncNowClick ==
    /\ page = "offline"
    /\ ~syncing
    /\ ToSync(intents) # <<>>
    /\ nextReq + Len(ToSync(intents)) - 1 <= MaxPosts
    /\ Len(toasts) <= MaxToasts
    /\ syncing' = TRUE
    /\ syncRun' = [active |-> TRUE, toSync |-> ToSync(intents), k |-> 1,
                   succeeded |-> 0, failed |-> 0]
    /\ intents' = UpdateStatus(intents, ToSync(intents)[1].id, "posting", NoError)
    /\ posts' = posts \cup {RetryRequest(ToSync(intents)[1], nextReq, "syncAll")}
    /\ nextReq' = nextReq + 1
    /\ UNCHANGED <<apiVars, offline, moreVars, user, selVars, page, wizVars, toasts,
                   nextIntent, retryLog, reloads>>

\* a queue POST reaches the backend: 503 while it is unavailable, else the
\* POST /api/issuances handler
QueuePostHandled(r) ==
    /\ r \in posts
    /\ r.resp.kind = "none"
    /\ IF offline
       THEN /\ posts' = (posts \ {r}) \cup
                    {[r EXCEPT !.resp = [kind |-> "http", ok |-> FALSE,
                                         status |-> 503, message |-> ""]]}
            /\ UNCHANGED <<issuances, nextId, now>>
       ELSE /\ issuances' = PostIssuances(issuances,
                                [isArray |-> TRUE, items |-> r.rows], nextId, now)
            /\ nextId' = nextId + Len(r.rows)
            /\ now' = now + 1
            /\ posts' = (posts \ {r}) \cup
                    {[r EXCEPT !.resp = [kind |-> "http", ok |-> TRUE,
                                         status |-> 201, message |-> ""]]}
    /\ UNCHANGED <<httpResp, offline, moreVars, user, selVars, page, wizVars, toasts,
                   intents, syncing, syncRun, nextReq, nextIntent, retryLog, reloads>>

\* the fetch of a queue POST rejects before the backend is reached
QueuePostRejected(r, message) ==
    /\ r \in posts
    /\ r.resp.kind = "none"
    /\ posts' = (posts \ {r}) \cup
            {[r EXCEPT !.resp = [kind |-> "throw", ok |-> FALSE, status |-> 0,
                                 message |-> message]]}
    /\ UNCHANGED <<apiVars, offline, moreVars, user, selVars, page, wizVars, toasts,
                   intents, syncing, syncRun, nextReq, nextIntent, retryLog, reloads>>

\* retryIntent from the answer of its fetch to its end, and, when syncAll
\* awaited it, syncAll up to the fetch of the next retryIntent or to its end
RetryFinished(r) ==
    /\ r \in posts
    /\ r.resp.kind # "none"
    /\ LET res == RetryResult(r.resp)
           ints == UpdateStatus(intents, r.intentId, res.status, res.error)
           shown == Append(toasts, res.toast)
           succeeded == syncRun.succeeded + 1
       IN  /\ retryLog' = Append(retryLog, [intentId |-> r.intentId, status |-> res.status])
           /\ IF r.caller # "syncAll"
              THEN /\ intents' = ints
                   /\ posts' = posts \ {r}
                   /\ toasts' = shown
                   /\ UNCHANGED <<syncing, syncRun, nextReq>>
              ELSE IF syncRun.k < Len(syncRun.toSync)
              THEN LET next == syncRun.toSync[syncRun.k + 1] IN
                   /\ intents' = UpdateStatus(ints, next.id, "posting", NoError)
                   /\ posts' = (posts \ {r}) \cup {RetryRequest(next, nextReq, "syncAll")}
                   /\ nextReq' = nextReq + 1
                   /\ toasts' = shown
                   /\ syncRun' = [syncRun EXCEPT !.k = syncRun.k + 1,
                                                 !.succeeded = succeeded]
                   /\ UNCHANGED syncing
              ELSE /\ intents' = ints
                   /\ posts' = posts \ {r}
                   /\ syncing' = FALSE
                   /\ syncRun' = NoSync
                   /\ toasts' = Append(shown, SyncSummary(succeeded, syncRun.failed))
                   /\ UNCHANGED nextReq
    /\ UNCHANGED <<apiVars, offline, moreVars, user, selVars, page, wizVars, nextIntent, reloads>>

\* the Delete button of row k
DeleteIntent(k) ==
    /\ page = "offline"
    /\ k \in 1..Len(intents)
    /\ intents' = Remove(intents, intents[k].id)
    /\ UNCHANGED <<apiVars, offline, moreVars, user, selVars, page, wizVars, toasts,
                   syncing, syncRun, posts, nextReq, nextIntent, retryLog, reloads>>

\* the browser reloads the page: every module is evaluated again, so the
\* stores, the component state and the mock backend's list start from their
\* initial values; only the auth store is persisted. Requests in flight are
\* dropped with the page.
PageReload ==
    /\ page \in {"dashboard", "offline"}
    /\ reloads < MaxReloads
    /\ reloads' = reloads + 1
    /\ intents' = <<>>
    /\ syncing' = FALSE
    /\ syncRun' = NoSync
    /\ posts' = {}
    /\ toasts' = <<>>
    /\ issuances' = <<>>
    /\ flight' = None
    /\ passengers' = <<>>
    /\ selectedIds' = {}
    /\ issuanceCounts' = NoCounts
    /\ UNCHANGED <<uberIssued, pageVars, toastVars>>
    /\ UNCHANGED <<nextId, now, httpResp, offline, user, page, wizVars, nextReq,
                   nextIntent, retryLog>>

QueueUsers == {"CSA"}

QueueInit ==
    /\ BackendInit
    /\ ClientInit
    /\ user \in QueueUsers
    /\ page = "dashboard"

QueueNext ==
    \/ \E payload \in QueuePayloads : EnqueueIntent(payload)
    \/ MountOffline
    \/ LeaveOffline
    \/ \E k \in 1..MaxIntents : RetryClick(k)
    \/ SyncNowClick
    \/ \E r \in posts : QueuePostHandled(r)
    \/ \E r \in posts, message \in FetchErrors : QueuePostRejected(r, message)
    \/ \E r \in posts : RetryFinished(r)
    \/ \E k \in 1..MaxIntents : DeleteIntent(k)
    \/ ToggleOffline
    \/ ToastExpire
    \/ PageReload

SpecQueue == QueueInit /\ [][QueueNext]_vars

(***************************************************************************)
(* Sign-in, sign-out and the routes of App.                                *)
(***************************************************************************)
\* App: the paths of the Routes of App that take no state of their own
Routes == {"signin", "dashboard", "exports", "admin"}

\* Admin page: only accessible to the ADMIN role
AdminAllowed(u) == u = "ADMIN"

\* the route a navigation to `route` ends on: ProtectedLayout redirects to
\* "/" when no user is signed in; every route under it renders its element
RouteShown(route, u, from) ==
    IF route = "signin" THEN "signin"
    ELSE IF u = None THEN "signin"
    ELSE IF route = "admin" /\ ~AdminAllowed(u) THEN from
    ELSE route

\* SignIn.handleSignIn: signIn(role); navigate('/dashboard')
SignIn(role) ==
    /\ page = "signin"
    /\ user = None
    /\ user' = role
    /\ page' = RouteShown("dashboard", role, page)
    /\ UNCHANGED <<apiVars, offline, moreVars, selVars, wizVars, toasts, queueVars>>

\* ProtectedLayout: the Sign out button; the layout then renders Navigate to "/"
SignOut ==
    /\ page \in {"dashboard", "flight", "exports", "admin"}
    /\ user' = None
    /\ page' = "signin"
    /\ UNCHANGED <<apiVars, offline, moreVars, selVars, wizVars, toasts, queueVars>>

\* a link of the navigation bar, a button that navigates, or a typed URL
NavigateTo(route) ==
    /\ page \in {"signin", "dashboard", "flight", "exports", "admin"}
    /\ page' = RouteShown(route, user, page)
    /\ UNCHANGED <<apiVars, offline, moreVars, user, selVars, wizVars, toasts, queueVars>>

\* /flight/:id opened by URL or from the dashboard: loadData under the layout
OpenFlight(f) ==
    /\ user # None
    /\ LoadFlight(f)

RoutesInit ==
    /\ BackendInit
    /\ ClientInit
    /\ user \in Roles \cup {None}
    /\ page = "signin"

RoutesNext ==
    \/ \E role \in Roles : SignIn(role)
    \/ SignOut
    \/ \E route \in Routes : NavigateTo(route)
    \/ \E f \in Flights : OpenFlight(f)
    \/ \E p \in {"P1", "P2", "P3"} : TogglePassenger(p)

SpecRoutes == RoutesInit /\ [][RoutesNext]_vars

(***************************************************************************)
(* The flight page next to the API: issuances are created and voided       *)
(* through the API and the page is loaded again.                           *)
(***************************************************************************)
FlightInit ==
    /\ BackendInit
    /\ ClientInit
    /\ user = "SUPERVISOR"
    /\ page = "dashboard"

FlightNext ==
    \/ \E body \in ClientBodies : ApiPost(body)
    \/ \E id \in 1..(MaxIssuances + 1), reason \in VoidReasons : ApiVoid(id, reason)
    \/ \E f \in Flights : LoadFlight(f)
    \/ \E p \in {"P1", "P2", "P3"} : TogglePassenger(p)
    \/ \E ids \in SUBSET {"P1", "P2", "P3"} : SelectAll(ids)
    \/ ClearSelection

SpecFlight == FlightInit /\ [][FlightNext]_vars

(***************************************************************************)
(* The way into the wizard: both flights, the selection kept across a      *)
(* change of flight, one voucher type and a user who cannot override.      *)
(***************************************************************************)
\* the texts typed into a Serial Number field
SerialTexts == {"M1777"}

EntryInit ==
    /\ BackendInit
    /\ ClientInit
    /\ user = "CSA"
    /\ page = "dashboard"

EntryNext ==
    \/ \E f \in Flights : LoadFlight(f)
    \/ \E p \in {"P1", "P2", "P3"} : TogglePassenger(p)
    \/ OpenWizard
    \/ GetRespond
    \/ GetDeliver
    \/ AddVoucher("MEAL")
    \/ RemoveAllOfType("MEAL")
    \/ \E to \in 1..3 : GoToStep(to)
    \/ \E p \in {"P1", "P2", "P3"} : RemovePassenger(p)
    \/ \E id \in 1..MaxVouchers, text \in SerialTexts : TypeSerialNumber(id, text)
    \/ SubmitClick
    \/ SubmitSucceeded
    \/ LeaveWizard
    \/ ToastExpire

SpecEntry == EntryInit /\ [][EntryNext]_vars

(***************************************************************************)
(* GET /api/exports. A CSV line is held as the list of its comma-separated *)
(* pieces; a piece of a data row is named after the expression of the      *)
(* handler that printed it.                                                *)
(***************************************************************************)
\* the header line, split at its commas
CsvHeader ==
    <<"issuance_id", "flight", "date", "pnr", "passenger_name", "seat",
      "voucher_type", "amount", "method", "external_id", "issuer", "timestamp",
      "notes", "status">>

\* i.notes || '' is printed as it is: the wizard joins the parts of a notes
\* string with ", ", so a notes string of n > 1 parts is n pieces of the line
NotesPieces(notes) ==
    IF notes = <<>> THEN <<"notes">> ELSE [k \in 1..Len(notes) |-> "notes"]

\* one data row: [i.id, flightNumber, date, ..., i.status].join(',')
CsvRow(i) ==
    <<"id", "flightNumber", "date", "pnr", "passengerName", "seat",
      "voucherType", "amount", "method", "externalId", "issuerName",
      "timestamp">> \o NotesPieces(i.notes) \o <<"status">>

\* [header, ...rows] for the issuances of the flight, or for all of them
ExportCsv(iss, flightId) ==
    LET OnFlight(i) == i.flightId = flightId
        data == IF flightId # None THEN SelectSeq(iss, OnFlight) ELSE iss
    IN  <<CsvHeader>> \o [k \in 1..Len(data) |-> CsvRow(data[k])]

\* GET /api/exports(?flightId=)
ApiExport(flightId) ==
    /\ httpResp' = [kind |-> "EXPORT", status |-> 200, req |-> <<>>,
                    body |-> ExportCsv(issuances, flightId)]
    /\ UNCHANGED <<issuances, nextId, now>>
    /\ UNCHANGED <<offline, moreVars, user, selVars, page, wizVars, toasts, queueVars>>

\* the serial and the reason a user gives a voucher in step 2 of the wizard
ExportVouchers ==
    [serialNumber : {None, "M1000"}, reason : {"", "Delay"}]

\* the rows the wizard posts for such vouchers
ExportRecords ==
    {[id |-> 0, status |-> None, timestamp |-> 0, batchId |-> 1,
      flightId |-> f, pnr |-> "PNR1", voucherType |-> "MEAL", amount |-> 30,
      method |-> MethodOf("MEAL"), externalId |-> 0, issuerId |-> "Demo User",
      notes |-> Notes(v), overrideReason |-> None] :
        f \in Flights, v \in ExportVouchers}

ExportInit ==
    /\ BackendInit
    /\ ClientInit
    /\ user = "FINANCE"
    /\ page = "exports"

ExportNext ==
    \/ \E r \in ExportRecords : ApiPost([isArray |-> TRUE, items |-> <<r>>])
    \/ \E f \in Flights \cup {None} : ApiExport(f)

SpecExport == ExportInit /\ [][ExportNext]_vars

(***************************************************************************)
(* The Exports page: the preview of the issuances and its pagination.      *)
(***************************************************************************)
\* most fetches of the issuance list the Exports page ever sends
MaxLoads == 3

ROWS_PER_PAGE == 20

\* Math.ceil(n / d) for n >= 0 and d > 0
Ceil(n, d) == (n + d - 1) \div d
Max(a, b) == IF a > b THEN a ELSE b
Min(a, b) == IF a < b THEN a ELSE b

\* Exports: totalPages, startIndex, endIndex, previewRows
TotalPages(list) == Ceil(Len(list), ROWS_PER_PAGE)
StartIndex(pg) == (pg - 1) * ROWS_PER_PAGE
EndIndex(pg) == StartIndex(pg) + ROWS_PER_PAGE
PreviewRows(list, pg) ==
    SubSeq(list, Max(StartIndex(pg), 0) + 1, Min(EndIndex(pg), Len(list)))

\* the backend list after n single-record POSTs on alternating flights
Seeded(n) ==
    [k \in 1..n |->
        CreateRecord([id |-> 0, status |-> None, timestamp |-> 0, batchId |-> 0,
                      flightId |-> IF (n - k) % 2 = 0 THEN "F1" ELSE "F2",
                      pnr |-> "PNR1", voucherType |-> "MEAL", amount |-> 30,
                      method |-> MethodOf("MEAL"), externalId |-> 0,
                      issuerId |-> "Demo User", notes |-> <<>>,
                      overrideReason |-> None],
                     n - k + 1, n - k + 1)]
\* the sizes of the backend list the Exports page is opened on
SeededSizes == {0, 20, 41}

\* loadIssuances up to its fetch: setLoading(true), GET /api/issuances
StartLoad ==
    /\ exLoading' = TRUE
    /\ exLoads' = exLoads \cup {[rid |-> nextLoad, flightId |-> selectedFlightId',
                                 state |-> "sent", body |-> <<>>]}
    /\ nextLoad' = nextLoad + 1

\* the Exports page opens: the effect on selectedFlightId runs loadIssuances
MountExports ==
    /\ page = "dashboard"
    /\ nextLoad <= MaxLoads
    /\ page' = "exports"
    /\ exIssuances' = <<>>
    /\ selectedFlightId' = "all"
    /\ previewPage' = 1
    /\ StartLoad
    /\ UNCHANGED <<apiVars, offline, issuanceCounts, uberIssued, toastVars, user, selVars, wizVars,
                   toasts, queueVars>>

\* the Flight select: setSelectedFlightId, then the effect runs loadIssuances
SelectFlightId(f) ==
    /\ page = "exports"
    /\ f # selectedFlightId
    /\ nextLoad <= MaxLoads
    /\ selectedFlightId' = f
    /\ StartLoad
    /\ UNCHANGED <<exIssuances, previewPage>>
    /\ UNCHANGED <<apiVars, offline, issuanceCounts, uberIssued, toastVars, user, selVars, page, wizVars,
                   toasts, queueVars>>

\* GET /api/issuances(?flightId=) of a load is answered by the backend
LoadAnswered(r) ==
    /\ r \in exLoads
    /\ r.state = "sent"
    /\ exLoads' = (exLoads \ {r}) \cup
            {[r EXCEPT !.state = "ok",
                       !.body = GetIssuances(issuances,
                                    IF r.flightId = "all" THEN None ELSE r.flightId)]}
    /\ UNCHANGED <<exIssuances, selectedFlightId, exLoading, previewPage, nextLoad>>
    /\ UNCHANGED <<apiVars, offline, issuanceCounts, uberIssued, toastVars, user, selVars, page, wizVars,
                   toasts, queueVars>>

\* the fetch of a load rejects, or its body is not JSON
LoadRejected(r) ==
    /\ r \in exLoads
    /\ r.state = "sent"
    /\ exLoads' = (exLoads \ {r}) \cup {[r EXCEPT !.state = "failed"]}
    /\ UNCHANGED <<exIssuances, selectedFlightId, exLoading, previewPage, nextLoad>>
    /\ UNCHANGED <<apiVars, offline, issuanceCounts, uberIssued, toastVars, user, selVars, page, wizVars,
                   toasts, queueVars>>

\* loadIssuances after its fetch: setIssuances(data) and setPreviewPage(1),
\* or setIssuances([]) in the catch block; setLoading(false) in finally
LoadFinished(r) ==
    /\ page = "exports"
    /\ r \in exLoads
    /\ r.state # "sent"
    /\ IF r.state = "ok"
       THEN exIssuances' = r.body /\ previewPage' = 1
       ELSE exIssuances' = <<>> /\ UNCHANGED previewPage
    /\ exLoading' = FALSE
    /\ exLoads' = exLoads \ {r}
    /\ UNCHANGED <<selectedFlightId, nextLoad>>
    /\ UNCHANGED <<apiVars, offline, issuanceCounts, uberIssued, toastVars, user, selVars, page, wizVars,
                   toasts, queueVars>>

\* the pagination shows: not loading, rows to show, more than one page
PaginationShown ==
    page = "exports" /\ ~exLoading /\ exIssuances # <<>> /\ TotalPages(exIssuances) > 1

\* Previous: setPreviewPage(Math.max(1, previewPage - 1))
PreviousPage ==
    /\ PaginationShown
    /\ previewPage # 1
    /\ previewPage' = Max(1, previewPage - 1)
    /\ UNCHANGED <<exIssuances, selectedFlightId, exLoading, exLoads, nextLoad>>
    /\ UNCHANGED <<apiVars, offline, issuanceCounts, uberIssued, toastVars, user, selVars, page, wizVars,
                   toasts, queueVars>>

\* Next: setPreviewPage(Math.min(totalPages, previewPage + 1))
NextPage ==
    /\ PaginationShown
    /\ previewPage # TotalPages(exIssuances)
    /\ previewPage' = Min(TotalPages(exIssuances), previewPage + 1)
    /\ UNCHANGED <<exIssuances, selectedFlightId, exLoading, exLoads, nextLoad>>
    /\ UNCHANGED <<apiVars, offline, issuanceCounts, uberIssued, toastVars, user, selVars, page, wizVars,
                   toasts, queueVars>>

\* Back to Dashboard; a load in flight is dropped with the page
LeaveExports ==
    /\ page = "exports"
    /\ page' = "dashboard"
    /\ exLoads' = {}
    /\ exLoading' = FALSE
    /\ UNCHANGED <<exIssuances, selectedFlightId, previewPage, nextLoad>>
    /\ UNCHANGED <<apiVars, offline, issuanceCounts, uberIssued, toastVars, user, selVars, wizVars,
                   toasts, queueVars>>

PreviewInit ==
    /\ ClientInit
    /\ issuances \in {Seeded(n) : n \in SeededSizes}
    /\ nextId = Len(issuances) + 1
    /\ now = Len(issuances) + 1
    /\ httpResp = [kind |-> "NONE", status |-> 0, req |-> <<>>, body |-> <<>>]
    /\ offline = FALSE
    /\ user = "FINANCE"
    /\ page = "dashboard"

PreviewNext ==
    \/ MountExports
    \/ \E f \in Flights \cup {"all"} : SelectFlightId(f)
    \/ \E r \in exLoads : LoadAnswered(r)
    \/ \E r \in exLoads : LoadRejected(r)
    \/ \E r \in exLoads : LoadFinished(r)
    \/ PreviousPage
    \/ NextPage
    \/ LeaveExports

SpecPreview == PreviewInit /\ [][PreviewNext]_vars

(***************************************************************************)
(* The toast store with its timers.  In the specifications above no toast  *)
(* is dismissed by hand and the timers run in the order they were set, so  *)
(* ToastExpire there removes the oldest toast.                             *)
(***************************************************************************)
\* most toasts ever shown
MaxShown == 3
\* the time that passes in one step of the clock, in ms
TickMs == 1000

\* show: the delay of the setTimeout, in ms
AutoDismissMs == 5000

\* show: const toast = { id, message, type }
ShownToast(id, message, type) == [id |-> id, message |-> message, type |-> type]

\* a timer callback that drops the oldest toast, whatever its id
AutoDismissOldest(ts, id) == IF ts = <<>> THEN ts ELSE Tail(ts)

\* the setTimeout callback of show: toasts.filter((t) => t.id !== id)
AutoDismiss(ts, id) == SelectSeq(ts, LAMBDA t : t.id # id)

\* dismiss: toasts.filter((t) => t.id !== id)
Dismissed(ts, id) == SelectSeq(ts, LAMBDA t : t.id # id)

ToastIds == {toasts[k].id : k \in 1..Len(toasts)}

\* show(message, type)
Show(message, type) ==
    /\ nextToast <= MaxShown
    /\ toasts' = Append(toasts, ShownToast(nextToast, message, type))
    /\ timers' = Append(timers, [id |-> nextToast, elapsed |-> 0])
    /\ nextToast' = nextToast + 1
    /\ UNCHANGED <<apiVars, offline, issuanceCounts, uberIssued, pageVars, user, selVars, page,
                   wizVars, queueVars>>

\* dismiss(id)
Dismiss(id) ==
    /\ id \in ToastIds
    /\ toasts' = Dismissed(toasts, id)
    /\ UNCHANGED <<apiVars, offline, issuanceCounts, uberIssued, pageVars, toastVars, user, selVars,
                   page, wizVars, queueVars>>

\* time passes, up to the moment the next timer is due
Tick ==
    /\ timers # <<>>
    /\ \A k \in 1..Len(timers) : timers[k].elapsed < AutoDismissMs
    /\ timers' = [k \in 1..Len(timers) |->
                    [timers[k] EXCEPT !.elapsed = @ + TickMs]]
    /\ UNCHANGED <<apiVars, offline, issuanceCounts, uberIssued, pageVars, nextToast, user, selVars,
                   page, wizVars, toasts, queueVars>>

\* the timer set first is due: its callback runs
TimerFires ==
    /\ timers # <<>>
    /\ timers[1].elapsed >= AutoDismissMs
    /\ toasts' = AutoDismiss(toasts, timers[1].id)
    /\ timers' = Tail(timers)
    /\ UNCHANGED <<apiVars, offline, issuanceCounts, uberIssued, pageVars, nextToast, user, selVars,
                   page, wizVars, queueVars>>

\* the texts and types of the toasts shown
ToastTexts == {"Issued voucher(s)."}
ToastTypes == {"success", "error"}

ToastInit ==
    /\ BackendInit
    /\ ClientInit
    /\ user = "CSA"
    /\ page = "dashboard"

ToastNext ==
    \/ \E m \in ToastTexts, t \in ToastTypes : Show(m, t)
    \/ \E id \in 1..MaxShown : Dismiss(id)
    \/ Tick
    \/ TimerFires

SpecToast == ToastInit /\ [][ToastNext]_vars

\* the event loop runs a timer that is due, and time does not stop
SpecToastFair == SpecToast /\ WF_vars(Tick) /\ WF_vars(TimerFires)

(***************************************************************************)
(* Claims about the wizard (checked under SpecWizard).                     *)
(***************************************************************************)
\* the records a step adds to the backend (POST prepends them)
Created == SubSeq(issuances', 1, Len(issuances') - Len(issuances))

\* the record n is for a passenger (PNR) who already has, in the list iss, a
\* non-void issuance of the same voucher type on the same flight
IsDuplicateOf(n, iss) ==
    \E j \in 1..Len(iss) :
        /\ iss[j].pnr = n.pnr
        /\ iss[j].flightId = n.flightId
        /\ iss[j].voucherType = n.voucherType
        /\ iss[j].status # "void"

\* C1: a user who is neither SUPERVISOR nor ADMIN never completes a wizard
\* submission that creates an issuance for a passenger who already has a
\* non-void issuance of the same voucher type on the same flight.
C1_DuplicateGuard ==
    [][~canOverride =>
          \A k \in 1..Len(Created) : ~IsDuplicateOf(Created[k], issuances)]_vars

\* C2: a SUPERVISOR or ADMIN submits a batch that contains a duplicate only
\* with an override reason that is not empty and not only whitespace: every
\* duplicate record they create carries such a reason.
C2_OverrideNeedsReason ==
    [][canOverride =>
          \A k \in 1..Len(Created) :
              IsDuplicateOf(Created[k], issuances) =>
                  /\ Created[k].overrideReason # None
                  /\ Trim(Created[k].overrideReason) # ""]_vars

\* the voucher types of a list of vouchers
TypesOf(vs) == {vs[k].type : k \in 1..Len(vs)}

\* C3: a submission for N selected passengers and M voucher types creates
\* exactly N * M records, one for each (passenger, voucher type) pair, all
\* with the same batchId.
C3_BatchIsPassengersTimesTypes ==
    [][sub.pc = "post" /\ sub'.pc = "idle" /\ ~offline =>
          LET N == Len(sub.selected)
              types == TypesOf(sub.vouchers)
          IN  /\ Len(Created) = N * Cardinality(types)
              /\ \A p \in SeqRange(sub.selected), t \in types :
                    Cardinality({k \in 1..Len(Created) :
                        Created[k].pnr = Pnr(p) /\ Created[k].voucherType = t}) = 1
              /\ \A k \in 1..Len(Created) : Created[k].batchId = sub.batchId]_vars

\* C5: when the Uber API rejects a voucher of a submission because its
\* amount is above 80, the submission shows an error toast and creates no
\* issuance record.
C5_UberFailureCreatesNothing ==
    [][/\ sub.pc = "post" /\ sub'.pc = "idle"
       /\ \E k \in 1..Len(sub.vouchers) :
             sub.vouchers[k].type = "UBER" /\ sub.vouchers[k].amount > UberMaxAmount
       => /\ issuances' = issuances
          /\ \E k \in 1..Len(toasts') :
                k > Len(toasts) /\ toasts'[k].type = "error"]_vars

\* C7: when the backend is unavailable (503) as the wizard submits, the
\* submission is added to the offline queue as an intent with status 'queued'.
C7_OfflineSubmissionIsQueued ==
    [][sub.pc = "post" /\ sub'.pc = "idle" /\ offline =>
          /\ Len(intents') = Len(intents) + 1
          /\ intents'[Len(intents')].status = "queued"]_vars

\* C14: when a wizard submission succeeds (its POST created the records and
\* handleSubmit ran to its end), the set of selected passenger ids of the
\* selection store is empty.
C14_SelectionClearedAfterIssue ==
    [][sub.pc = "post" /\ sub'.pc = "idle" /\ Len(issuances') > Len(issuances)
          => selectedIds' = {}]_vars

\* a submission has just succeeded: its success toast is up, the flight page
\* is shown and nothing is selected
C14_Witness ==
    /\ page = "flight"
    /\ Len(issuances) > 0
    /\ \E k \in 1..Len(toasts) : toasts[k].type = "success"
    /\ selectedIds = {}

\* C16: the wizard is entered from the flight page only with a selected
\* passenger; every submission that starts has at least one selected
\* passenger and one pending voucher; and every submission that succeeds
\* creates at least one record.
C16_NoEmptySubmission ==
    /\ [][page = "flight" /\ page' = "issue" => selectedPassengers # <<>>]_vars
    /\ [][sub.pc = "idle" /\ sub'.pc # "idle" =>
              sub'.selected # <<>> /\ sub'.vouchers # <<>>]_vars
    /\ [][sub.pc = "post" /\ sub'.pc = "idle" /\ page' = "flight"
              => Len(Created) > 0]_vars

\* a submission for the only passenger of the second flight is about to be
\* posted, while a passenger of the first flight is still in the selection
C16_Witness ==
    /\ sub.pc = "post"
    /\ flight = "F2"
    /\ sub.selected = <<"P3">>
    /\ Len(sub.rows) > 0
    /\ selectedIds # {"P3"}

(***************************************************************************)
(* Claims about the API (checked under SpecApi).                           *)
(***************************************************************************)
\* the record b is the record a with nothing but the named fields changed
SameExceptStatus(a, b) == b = [a EXCEPT !.status = b.status]
SameExceptStatusAndReason(a, b) ==
    b = [a EXCEPT !.status = b.status, !.overrideReason = b.overrideReason]

\* C4 as stated: after any create or void request every issuance is still
\* returned by GET /api/issuances with the same id, and a void changes
\* nothing of the record but its status, which becomes 'void'.
C4_VoidOnlyChangesStatus ==
    [][\A k \in 1..Len(issuances) :
          \E j \in 1..Len(GetIssuances(issuances', None)) :
             LET a == issuances[k]
                 b == GetIssuances(issuances', None)[j]
             IN  /\ b.id = a.id
                 /\ \/ b = a
                    \/ b.status = "void" /\ SameExceptStatus(a, b)]_vars

\* C4 as amended: no issuance is ever removed (every record stays in the
\* list GET /api/issuances returns, under the same id); a void sets the
\* record's status to 'void' and, when the request carries an override
\* reason, its overrideReason, and changes no other field and no other record.
C4_NeverHardDeleted ==
    [][\A k \in 1..Len(issuances) :
          \E j \in 1..Len(GetIssuances(issuances', None)) :
             LET a == issuances[k]
                 b == GetIssuances(issuances', None)[j]
             IN  /\ b.id = a.id
                 /\ \/ b = a
                    \/ b.status = "void" /\ SameExceptStatusAndReason(a, b)]_vars

\* a void with an override reason has been applied and older records remain
C4_Witness ==
    /\ httpResp.kind = "VOID" /\ httpResp.status = 200
    /\ Len(issuances) >= 2
    /\ \E k \in 1..Len(issuances) :
          issuances[k].status = "void" /\ issuances[k].overrideReason = "damaged"

\* C6: POST /api/issuances creates exactly one issuance per submitted record,
\* stored at the head of the list with status 'issued', an id no other record
\* has and a timestamp, whatever id, status or timestamp the client sent, with
\* the other fields as sent, and the response body is the created records.
C6_PostCreatesOnePerRecord ==
    httpResp.kind = "POST" =>
        LET req == httpResp.req
            created == httpResp.body
        IN  /\ httpResp.status = 201
            /\ Len(created) = Len(req)
            /\ Len(issuances) >= Len(created)
            /\ SubSeq(issuances, 1, Len(created)) = created
            /\ \A k \in 1..Len(created) :
                  /\ created[k].status = "issued"
                  /\ created[k].id # 0
                  /\ created[k].timestamp = now - 1
                  /\ created[k] = [req[k] EXCEPT !.id = created[k].id,
                                                !.status = "issued",
                                                !.timestamp = created[k].timestamp]
                  /\ \A j \in 1..Len(issuances) :
                        j # k => issuances[j].id # created[k].id

\* a POST of two records, one carrying an id and the status 'void', was handled
C6_Witness ==
    /\ httpResp.kind = "POST"
    /\ Len(httpResp.req) = 2
    /\ Len(issuances) = 2
    /\ \E k \in 1..2 : httpResp.req[k].status = "void" /\ httpResp.req[k].id = 1

(***************************************************************************)
(* Claims about the offline queue (checked under SpecQueue).               *)
(***************************************************************************)
\* the queue POSTs a step sends
SentPosts == {r \in posts' : \A q \in posts : q.rid # r.rid}
\* the queue POSTs whose retryIntent a step finishes
EndedPosts == {r \in posts : \A q \in posts' : q.rid # r.rid}

\* C8: every retry of an intent sets the intent to 'posting' when it starts;
\* when it finishes the intent is 'synced' without an error if the POST
\* returned success, and otherwise 'failed' with a non-empty error message; a
\* POST handled while the backend accepts requests returns success; and an
\* intent is 'posting' only while a retry of it is in flight.
C8_IntentStatusFlow ==
    /\ [][ /\ \A r \in SentPosts : \A k \in 1..Len(intents') :
                intents'[k].id = r.intentId => intents'[k].status = "posting"
           /\ \A r \in EndedPosts : \A k \in 1..Len(intents') :
                intents'[k].id = r.intentId =>
                    IF r.resp.kind = "http" /\ r.resp.ok
                    THEN intents'[k].status = "synced" /\ intents'[k].error = NoError
                    ELSE /\ intents'[k].status = "failed"
                         /\ intents'[k].error.text \notin {None, ""}
           /\ \A r \in posts, q \in posts' :
                (q.rid = r.rid /\ r.resp.kind = "none" /\ q.resp.kind = "http"
                 /\ ~offline) => q.resp.ok
         ]_vars
    /\ [](\A k \in 1..Len(intents) :
            intents[k].status = "posting" =>
                \E r \in posts : r.intentId = intents[k].id)

\* an intent whose retry failed was retried, and that retry ended 'synced'
C8_Witness ==
    /\ posts = {}
    /\ \E k \in 1..Len(intents), i, j \in 1..Len(retryLog) :
        /\ i < j
        /\ retryLog[i] = [intentId |-> intents[k].id, status |-> "failed"]
        /\ retryLog[j] = [intentId |-> intents[k].id, status |-> "synced"]
        /\ intents[k].status = "synced"

\* C9: at no moment are two queue POSTs in flight, nor two intents 'posting'
C9_OnePostAtATime ==
    /\ Cardinality(posts) <= 1
    /\ Cardinality({k \in 1..Len(intents) : intents[k].status = "posting"}) <= 1

C11_SyncedIntentsLeaveQueue ==
    \A k \in 1..Len(intents) : intents[k].status # "synced"

\* C12: every intent that is in the queue before a page reload is in the
\* queue after it, with the same payload and status.
C12_QueueSurvivesReload ==
    [][reloads' # reloads =>
          \A k \in 1..Len(intents) : \E j \in 1..Len(intents') :
              /\ intents'[j].id = intents[k].id
              /\ intents'[j].payload = intents[k].payload
              /\ intents'[j].status = intents[k].status]_vars

(***************************************************************************)
(* Claims about the routes (checked under SpecRoutes).                     *)
(***************************************************************************)
\* C13: with no signed-in user only "/" is shown; the exports page is shown
\* only to a user with role FINANCE or ADMIN, and the admin page only to a
\* user with role ADMIN.
C13_RouteAccess ==
    /\ user = None => page = "signin"
    /\ page = "exports" => user \in {"FINANCE", "ADMIN"}
    /\ page = "admin" => user = "ADMIN"

(***************************************************************************)
(* Claims about the flight page (checked under SpecFlight).                *)
(***************************************************************************)
\* the issuances with status 'issued' of voucher type t made on flight f to
\* the passenger p (matched by PNR), in the list iss
IssuedTo(iss, f, p, t) ==
    {k \in 1..Len(iss) :
        /\ iss[k].flightId = f
        /\ iss[k].pnr = Pnr(p)
        /\ iss[k].voucherType = t
        /\ iss[k].status = "issued"}

\* C15: whenever the flight page is loaded, the count it shows for every
\* passenger and voucher type is the number of issuances with status 'issued'
\* made to that passenger for that type on the flight (voided ones are not
\* counted, and each further issuance adds one).
C15_IssuedColumn ==
    [][(\E f \in Flights : LoadFlight(f)) =>
          \A p \in SeqRange(passengers'), t \in VoucherTypes :
              issuanceCounts'[p][t] =
                  Cardinality(IssuedTo(issuances', flight', p, t))]_vars

\* the page shows M1 for a passenger who has two MEAL issuances on the
\* flight, one of them voided
C15_Witness ==
    /\ page = "flight"
    /\ flight = "F1"
    /\ DOMAIN issuanceCounts = {"P1", "P2"}
    /\ issuanceCounts["P1"]["MEAL"] = 1
    /\ \E j, k \in 1..Len(issuances) :
          /\ issuances[j].flightId = "F1" /\ issuances[j].pnr = "PNR1"
          /\ issuances[j].voucherType = "MEAL" /\ issuances[j].status = "void"
          /\ issuances[k].flightId = "F1" /\ issuances[k].pnr = "PNR1"
          /\ issuances[k].voucherType = "MEAL" /\ issuances[k].status = "issued"

(***************************************************************************)
(* Claims about the CSV export (checked under SpecExport).                 *)
(***************************************************************************)
\* the value each column of the documented header holds
CsvColumns ==
    <<[name |-> "issuance_id", value |-> "id"],
      [name |-> "flight", value |-> "flightNumber"],
      [name |-> "date", value |-> "date"],
      [name |-> "pnr", value |-> "pnr"],
      [name |-> "passenger_name", value |-> "passengerName"],
      [name |-> "seat", value |-> "seat"],
      [name |-> "voucher_type", value |-> "voucherType"],
      [name |-> "amount", value |-> "amount"],
      [name |-> "method", value |-> "method"],
      [name |-> "external_id", value |-> "externalId"],
      [name |-> "issuer", value |-> "issuerName"],
      [name |-> "timestamp", value |-> "timestamp"],
      [name |-> "notes", value |-> "notes"],
      [name |-> "status", value |-> "status"]>>

\* C17: the first line of every export is the documented header, and every
\* data row has one value per column, in the order of the header.
C17_CsvColumns ==
    httpResp.kind = "EXPORT" =>
        /\ httpResp.body[1] = [k \in 1..Len(CsvColumns) |-> CsvColumns[k].name]
        /\ \A n \in 2..Len(httpResp.body) :
              httpResp.body[n] = [k \in 1..Len(CsvColumns) |-> CsvColumns[k].value]

(***************************************************************************)
(* Claims about the export preview (checked under SpecPreview).            *)
(***************************************************************************)
\* C18: the preview shows at most 20 rows, and the page number is between 1
\* and the number of pages (1 when the list is empty).
C18_PageInRange ==
    page = "exports" =>
        /\ Len(PreviewRows(exIssuances, previewPage)) <= ROWS_PER_PAGE
        /\ 1 <= previewPage
        /\ previewPage <= Max(1, TotalPages(exIssuances))

(***************************************************************************)
(* Claims about serial numbers (checked under SpecEntry).                  *)
(***************************************************************************)
\* the 0-based place of the passenger with a PNR among the selected ones
PaxIndexOf(sel, pnr) == (CHOOSE i \in 1..Len(sel) : Pnr(sel[i]) = pnr) - 1

\* C19: the MEAL or CABCHARGE issuance created for the i-th selected
\* passenger (from 0) has the note serial:<startSerial>-<i>, when the wizard
\* issues it and when the offline queue replays it.
C19_QuickSerials ==
    [][\A k \in 1..(Len(issuances') - Len(issuances)) :
          LET rec == issuances'[k] IN
          rec.voucherType \in {"MEAL", "CABCHARGE"} =>
             /\ sub.pc = "post" /\ sub'.pc = "idle" =>
                   NotePart("serial", StartSerial(rec.voucherType),
                            PaxIndexOf(sub.selected, rec.pnr)) \in SeqRange(rec.notes)
             /\ rec.issuerId = "offline-queue" =>
                   \E r \in posts : \E i \in 0..(Len(r.rows) - 1) :
                       /\ r.rows[i + 1].pnr = rec.pnr
                       /\ NotePart("serial", StartSerial(rec.voucherType), i)
                              \in SeqRange(rec.notes)]_vars

(***************************************************************************)
(* Claims about the toasts (checked under SpecToastFair).                  *)
(***************************************************************************)
\* C20: a toast leaves the list only by its own dismiss or by its own timer,
\* which runs once 5 seconds have passed since the toast was shown; no toast
\* is left without a timer, so every toast leaves the list and the list
\* ends up empty once no new toast is shown.
C20_ToastsGoAway ==
    /\ [][\A k \in 1..Len(toasts) :
            toasts[k] \notin SeqRange(toasts') =>
               \/ Dismiss(toasts[k].id)
               \/ /\ timers # <<>> /\ timers' = Tail(timers)
                  /\ timers[1].id = toasts[k].id
                  /\ timers[1].elapsed >= AutoDismissMs
                  /\ timers[1].elapsed < AutoDismissMs + TickMs]_vars
    /\ [](\A k \in 1..Len(toasts) : \E j \in 1..Len(timers) :
             timers[j].id = toasts[k].id /\ timers[j].elapsed <= AutoDismissMs + TickMs)
    /\ \A id \in 1..MaxShown : (id \in ToastIds) ~> (id \notin ToastIds)
    /\ <>[](toasts = <<>>)

\* a toast was dismissed by hand, its timer is due, and a later toast is
\* still in the list
C20_Witness ==
    /\ timers # <<>>
    /\ timers[1].elapsed >= AutoDismissMs
    /\ timers[1].id \notin ToastIds
    /\ \E k \in 1..Len(toasts) : toasts[k].id > timers[1].id

(***************************************************************************)
(* More claims about the offline queue (checked under SpecQueue).          *)
(***************************************************************************)
\* C21: no intent is posted successfully twice, and no POST is sent for an
\* intent that was posted successfully before.
C21_AtMostOnceReplay ==
    /\ [](\A i, j \in 1..Len(retryLog) :
            /\ retryLog[i].intentId = retryLog[j].intentId
            /\ retryLog[i].status = "synced" /\ retryLog[j].status = "synced"
            => i = j)
    /\ [][\A r \in SentPosts : \A i \in 1..Len(retryLog) :
            ~(retryLog[i].intentId = r.intentId /\ retryLog[i].status = "synced")]_vars

(***************************************************************************)
(* More claims about the wizard (checked under SpecWizard).                *)
(***************************************************************************)
\* the issuance records that carry an Uber voucher id as their externalId
RecordsOf(voucherId) == {k \in 1..Len(issuances) : issuances[k].externalId = voucherId}

\* C22: when no submission is running, every voucher the Uber API issued is
\* the externalId of exactly one issuance record.
C22_UberVouchersRecorded ==
    sub.pc = "idle" =>
        \A voucherId \in 1..uberIssued : Cardinality(RecordsOf(voucherId)) = 1

\* the Issue now button of step 3 is enabled
IssueButtonEnabled == ~(isBlocked \/ needsOverrideReason \/ submitting)

EndedWith(run, ints, status) ==
    {k \in 1..Len(run) : \E j \in 1..Len(ints) :
        ints[j].id = run[k].id /\ ints[j].status = status}

\* C24: the summary toast of a Sync Now run counts as succeeded the intents
\* of the run that ended 'synced' and as failed those that ended 'failed'.
C24_SyncSummaryAccurate ==
    [][syncRun.active /\ ~syncRun'.active /\ toasts' # <<>> =>
          LET summary == toasts'[Len(toasts')] IN
          /\ summary.msg = "Sync completed"
          /\ summary.succeeded = Cardinality(EndedWith(syncRun.toSync, intents', "synced"))
          /\ summary.failed = Cardinality(EndedWith(syncRun.toSync, intents', "failed"))]_vars

IntentIds(ints) == {ints[k].id : k \in 1..Len(ints)}

\* C25: the backend creates issuance records only for intents that are in
\* the queue, and an intent that has left the queue does not come back.
C25_DeleteCancels ==
    /\ [][\A r \in posts \ posts' :
            Len(issuances') > Len(issuances) => r.intentId \in IntentIds(intents)]_vars
    /\ [][\A id \in 1..(nextIntent - 1) :
            id \notin IntentIds(intents) => id \notin IntentIds(intents')]_vars

(***************************************************************************)
(* More claims about the wizard (checked under SpecEntry).                 *)
(***************************************************************************)
\* C26: a submission creates as many issuance records as the wizard
\* announced for its passengers and vouchers.
C26_AnnouncedCountIsCreated ==
    /\ [][sub.pc = "idle" /\ sub'.pc # "idle" =>
            totalRows = TotalRows(sub'.selected, sub'.vouchers)]_vars
    /\ [][sub.pc = "post" /\ sub'.pc = "idle" /\ Len(issuances') > Len(issuances) =>
            Len(issuances') - Len(issuances) = TotalRows(sub.selected, sub.vouchers)]_vars

(***************************************************************************)
(* More claims about the flight page (checked under SpecFlight).           *)
(***************************************************************************)
\* C27: the selected ids are ids of passengers of the flight held in the
\* selection store.
C27_SelectionWithinFlight ==
    selectedIds \subseteq SeqRange(passengers)

(***************************************************************************)
(* More claims about the CSV export (checked under SpecExport).            *)
(***************************************************************************)
\* C28: every data row of an export has as many comma-separated fields as
\* the header row.
C28_RowsAsWideAsHeader ==
    httpResp.kind = "EXPORT" =>
        \A n \in 2..Len(httpResp.body) : Len(httpResp.body[n]) = Len(httpResp.body[1])

(***************************************************************************)
(* More claims about the way into the wizard (checked under SpecEntry).    *)
(***************************************************************************)
\* C29: the wizard is never open with no flight or with no selected
\* passenger: the user is on the dashboard instead.
C29_NoEmptyWizard ==
    page = "issue" => flight # None /\ selectedPassengers # <<>>

====
